---- MODULE Spec2Model ----
(***************************************************************************)
(* Model of the tk-core template engine (python/tank/template):            *)
(* Template construction (optional-section variations), apply_fields,      *)
(* missing_keys, get_fields and the ParsedPath parser.                     *)
(*                                                                         *)
(* Strings are sequences of one-character strings; indices into them are   *)
(* 0-based as in Python (Slice(s, a, b) is s[a:b]).  os.path is the POSIX  *)
(* flavour (os.sep = "/").                                                 *)
(***************************************************************************)
EXTENDS Integers, Sequences, FiniteSets, TLC

VARIABLES tmpl, op, arg, skip, res, handlers

vars == <<tmpl, op, arg, skip, res, handlers>>

(***************************************************************************)
(* Bounds of the model.                                                    *)
(***************************************************************************)
\* longest input string handed to get_fields
MaxLen == 6
\* longest field value handed to apply_fields
MaxValLen == 2

\* longest input string handed to validate and validate_and_get_fields
MaxValidateLen == 3

\* most pieces a definition handed to the constructor is put together from
MaxSegs == 3

\* get_fields and validate are called while the shared logger holds fewer
\* handlers than this
MaxHandlers == 1

(***************************************************************************)
(* Characters and Python string primitives.                                *)
(***************************************************************************)
\* characters input strings and field values are drawn from
InputChars == {"a", "_", "/"}

\* os.sep
Sep == "/"

\* characters matched by TEMPLATE_KEY_NAME_REGEX, among those the model uses
NameChars == {"a", "b", "A", "B", "v", "x", "y", "z", "_", " ", ".", "0", "1", "2", "3"}

\* str.isalnum on one character
AlnumChars == {"a", "b", "A", "B", "v", "x", "y", "z", "0", "1", "2", "3"}

\* the value Python's None
None == <<"None">>

\* s[a:b] for 0 <= a <= b <= len(s)
Slice(s, a, b) == SubSeq(s, a + 1, b)

\* str.lower on one character
LowerChar(c) == CASE c = "A" -> "a" [] c = "B" -> "b" [] OTHER -> c

\* str.lower
Lower(s) == [i \in 1..Len(s) |-> LowerChar(s[i])]

\* s[i:].startswith(t)
StartsAt(s, t, i) == i + Len(t) <= Len(s) /\ Slice(s, i, i + Len(t)) = t

\* s.startswith(t)
StartsWith(s, t) == StartsAt(s, t, 0)

\* c in s
HasChar(s, c) == \E i \in 1..Len(s) : s[i] = c

\* every string over chars of length lo..hi
Strings(chars, lo, hi) == UNION {[1..n -> chars] : n \in lo..hi}

RECURSIVE FindIterFrom(_, _, _)
\* start indices of the non-overlapping, leftmost matches of re.finditer(re.escape(t), s)
\* found from index i on (t is not empty)
FindIterFrom(t, s, i) ==
    IF i + Len(t) > Len(s) THEN <<>>
    ELSE IF StartsAt(s, t, i) THEN <<i>> \o FindIterFrom(t, s, i + Len(t))
    ELSE FindIterFrom(t, s, i + 1)

FindIter(t, s) == FindIterFrom(t, s, 0)

RECURSIVE SplitFrom(_, _, _, _)
\* s.split(c): the pieces of s between occurrences of the character c
SplitFrom(s, c, i, cur) ==
    IF i > Len(s) THEN <<cur>>
    ELSE IF s[i] = c THEN <<cur>> \o SplitFrom(s, c, i + 1, <<>>)
    ELSE SplitFrom(s, c, i + 1, Append(cur, s[i]))

Split(s, c) == SplitFrom(s, c, 1, <<>>)

RECURSIVE Join(_, _)
\* sep.join(pieces)
Join(pieces, sep) ==
    IF pieces = <<>> THEN <<>>
    ELSE IF Len(pieces) = 1 THEN pieces[1]
    ELSE pieces[1] \o sep \o Join(Tail(pieces), sep)

RECURSIVE Concat(_)
\* "".join(pieces)
Concat(pieces) == IF pieces = <<>> THEN <<>> ELSE Head(pieces) \o Concat(Tail(pieces))

RECURSIVE NormComps(_, _, _)
\* the component loop of posixpath.normpath
NormComps(comps, initial, acc) ==
    IF comps = <<>> THEN acc
    ELSE LET comp == Head(comps) IN
         IF comp = <<>> \/ comp = <<".">> THEN NormComps(Tail(comps), initial, acc)
         ELSE IF comp # <<".", ".">>
                 \/ (initial = 0 /\ acc = <<>>)
                 \/ (acc # <<>> /\ acc[Len(acc)] = <<".", ".">>)
              THEN NormComps(Tail(comps), initial, Append(acc, comp))
         ELSE IF acc # <<>> THEN NormComps(Tail(comps), initial, SubSeq(acc, 1, Len(acc) - 1))
         ELSE NormComps(Tail(comps), initial, acc)

\* os.path.normpath (posixpath)
NormPath(path) ==
    IF path = <<>> THEN <<".">>
    ELSE LET initial == IF ~StartsWith(path, <<Sep>>) THEN 0
                        ELSE IF StartsWith(path, <<Sep, Sep>>) /\ ~StartsWith(path, <<Sep, Sep, Sep>>)
                             THEN 2 ELSE 1
             body == Join(NormComps(Split(path, Sep), initial, <<>>), <<Sep>>)
             out == [i \in 1..initial |-> Sep] \o body
         IN IF out = <<>> THEN <<".">> ELSE out

\* os.path.join(a, b) (posixpath)
PathJoin(a, b) ==
    IF StartsWith(b, <<Sep>>) THEN b
    ELSE IF a = <<>> \/ a[Len(a)] = Sep THEN a \o b
    ELSE a \o <<Sep>> \o b

(***************************************************************************)
(* Template keys.  The key classes live in tank/templatekey.py; a key is   *)
(* a record: name, length (0 stands for None), default (None or a value)   *)
(* and kind: "str" accepts every string, "alnum" accepts strings of        *)
(* alphanumeric characters only.                                           *)
(***************************************************************************)
\* TemplateKey.validate: whether the key accepts the string s
KeyAccepts(key, s) ==
    key.kind = "str" \/ (s # <<>> /\ \A i \in 1..Len(s) : s[i] \in AlnumChars)

\* TemplateKey.value_from_str: [ok, value]; not ok stands for a raised TankError
value_from_str(key, s) ==
    IF KeyAccepts(key, s) THEN [ok |-> TRUE, value |-> s]
    ELSE [ok |-> FALSE, value |-> None]

\* TemplateKey.str_from_value: [ok, str]; None is rendered as the default,
\* not ok stands for a raised TankError
str_from_value(key, v) ==
    LET w == IF v = None THEN key.default ELSE v
    IN IF w # None /\ KeyAccepts(key, w) THEN [ok |-> TRUE, str |-> w]
       ELSE [ok |-> FALSE, str |-> <<>>]

(***************************************************************************)
(* Key references {name} in a definition.                                  *)
(***************************************************************************)
RECURSIVE NameRunEnd(_, _)
\* the index of the first character at or after i that is no key-name character
NameRunEnd(s, i) ==
    IF i < Len(s) /\ s[i + 1] \in NameChars THEN NameRunEnd(s, i + 1) ELSE i

RECURSIVE KeyMatchesFrom(_, _)
\* the matches of "{(TEMPLATE_KEY_NAME_REGEX)}" in s from index i on, each
\* [start, end, name] with s[start:end] = "{name}"
KeyMatchesFrom(s, i) ==
    IF i >= Len(s) THEN <<>>
    ELSE LET j == NameRunEnd(s, i + 1) IN
         IF s[i + 1] = "{" /\ j > i + 1 /\ j < Len(s) /\ s[j + 1] = "}"
         THEN <<[start |-> i, end |-> j + 1, name |-> Slice(s, i + 1, j)]>>
              \o KeyMatchesFrom(s, j + 1)
         ELSE KeyMatchesFrom(s, i + 1)

KeyMatches(s) == KeyMatchesFrom(s, 0)

\* re.findall of the key names referred to in a definition, in order
KeyNamesOf(definition) ==
    LET ms == KeyMatches(definition) IN [i \in 1..Len(ms) |-> ms[i].name]

RECURSIVE SplitKeysFrom(_, _, _)
\* re.split("{NAME}", s): the pieces between key references (empty pieces kept)
SplitKeysFrom(s, ms, from) ==
    IF ms = <<>> THEN <<Slice(s, from, Len(s))>>
    ELSE <<Slice(s, from, Head(ms).start)>> \o SplitKeysFrom(s, Tail(ms), Head(ms).end)

NonEmpty(piece) == piece # <<>>

(***************************************************************************)
(* Template._definition_variations                                         *)
(***************************************************************************)
RECURSIVE FirstIndexOf(_, _, _)
\* the first index >= i of character c in s, or Len(s) when there is none
FirstIndexOf(s, c, i) ==
    IF i >= Len(s) THEN Len(s)
    ELSE IF s[i + 1] = c THEN i ELSE FirstIndexOf(s, c, i + 1)

RECURSIVE SplitOptionalFrom(_, _, _)
\* re.split("(\[[^]]*\])", definition) from index i on, cur being the text
\* since the last bracketed group
SplitOptionalFrom(s, i, cur) ==
    IF i >= Len(s) THEN <<cur>>
    ELSE LET j == FirstIndexOf(s, "]", i + 1) IN
         IF s[i + 1] = "[" /\ j < Len(s)
         THEN <<cur, Slice(s, i, j + 1)>> \o SplitOptionalFrom(s, j + 1, <<>>)
         ELSE SplitOptionalFrom(s, i + 1, Append(cur, s[i + 1]))

\* re.search("{*NAME}", token): a key-name character followed by "}"
HasKeyDefinition(token) ==
    \E i \in 1..(Len(token) - 1) : token[i] \in NameChars /\ token[i + 1] = "}"

IsBracket(c) == c = "[" \/ c = "]"

NotBracket(c) == ~IsBracket(c)

\* re.sub("[\[\]]", "", token)
StripBrackets(token) == SelectSeq(token, NotBracket)

\* re.search("[\[\]]", token)
HasBracket(token) == \E i \in 1..Len(token) : IsBracket(token[i])

RECURSIVE VariationLoop(_, _)
\* the loop over the split tokens: [ok, defs, error]
VariationLoop(tokens, definitions) ==
    IF tokens = <<>> THEN [ok |-> TRUE, defs |-> definitions, error |-> "none"]
    ELSE LET token == Head(tokens) IN
         IF token = <<>> THEN VariationLoop(Tail(tokens), definitions)
         ELSE IF token[1] = "[" /\ ~HasKeyDefinition(token)
              THEN [ok |-> FALSE, defs |-> <<>>, error |-> "optional_without_key"]
         ELSE LET optional == token[1] = "["
                  temp == IF optional THEN definitions ELSE <<>>
                  tok == IF optional THEN StripBrackets(token) ELSE token
              IN IF HasBracket(tok)
                 THEN [ok |-> FALSE, defs |-> <<>>, error |-> "stray_bracket"]
                 ELSE VariationLoop(Tail(tokens),
                        temp \o [i \in 1..Len(definitions) |-> definitions[i] \o tok])

RECURSIVE InsertByLen(_, _)
\* insert d into a list sorted by decreasing length, after its equals
InsertByLen(sorted, d) ==
    IF sorted = <<>> THEN <<d>>
    ELSE IF Len(Head(sorted)) >= Len(d) THEN <<Head(sorted)>> \o InsertByLen(Tail(sorted), d)
    ELSE <<d>> \o sorted

\* the definitions in the order the loop built them; _definition_variations
\* does not return that, the variations claim is shown to depend on the sort
\* with it
Unsorted(defs, acc) == acc \o defs

RECURSIVE SortByLenDesc(_, _)
\* sorted(definitions, key=len, reverse=True): stable
SortByLenDesc(defs, acc) ==
    IF defs = <<>> THEN acc ELSE SortByLenDesc(Tail(defs), InsertByLen(acc, Head(defs)))

\* Template._definition_variations: [ok, defs, error]
DefinitionVariations(definition) ==
    LET r == VariationLoop(SplitOptionalFrom(definition, 0, <<>>), << <<>> >>)
    IN IF r.ok THEN [r EXCEPT !.defs = SortByLenDesc(r.defs, <<>>)] ELSE r

RECURSIVE Dedupe(_, _)
\* the keys of the OrderedDict self._variations: first occurrences, in order
Dedupe(defs, acc) ==
    IF defs = <<>> THEN acc
    ELSE IF \E i \in 1..Len(acc) : acc[i] = Head(defs) THEN Dedupe(Tail(defs), acc)
    ELSE Dedupe(Tail(defs), Append(acc, Head(defs)))

(***************************************************************************)
(* Template.__init__: the per-variation records.  A key table is a         *)
(* sequence of [alias, key] pairs (the items of the keys dictionary).      *)
(***************************************************************************)
\* keys.get(alias): the pairs of the table under that alias
Lookup(keys, alias) == SelectSeq(keys, LAMBDA p : p.alias = alias)

\* whether the pattern "{old}" (old read as a regular expression, in which "."
\* matches any character) matches s at index i
AliasMatchAt(s, old, i) ==
    LET pat == <<"{">> \o old \o <<"}">> IN
    /\ i + Len(pat) <= Len(s)
    /\ \A k \in 1..Len(pat) :
          \/ (pat[k] = "." /\ k > 1 /\ k < Len(pat))
          \/ s[i + k] = pat[k]

RECURSIVE SubAlias(_, _, _, _)
\* re.sub("{old}", "{new}", s) from index i on
SubAlias(s, old, new, i) ==
    IF i >= Len(s) THEN <<>>
    ELSE IF AliasMatchAt(s, old, i)
         THEN <<"{">> \o new \o <<"}">> \o SubAlias(s, old, new, i + Len(old) + 2)
         ELSE <<s[i + 1]>> \o SubAlias(s, old, new, i + 1)

RECURSIVE FixLoop(_, _)
FixLoop(definition, keys) ==
    IF keys = <<>> THEN definition
    ELSE LET p == Head(keys) IN
         IF p.alias # p.key.name
         THEN FixLoop(SubAlias(definition, p.alias, p.key.name, 0), Tail(keys))
         ELSE FixLoop(definition, Tail(keys))

\* Template._fix_key_names
FixKeyNames(definition, keys) == FixLoop(definition, keys)

RECURSIVE KeysLoop(_, _, _)
\* the loop of Template._keys_from_definition over the names found:
\* [ok, ordered_keys, error]
KeysLoop(names, keys, ordered) ==
    IF names = <<>> THEN [ok |-> TRUE, ordered_keys |-> ordered, error |-> "none"]
    ELSE LET found == Lookup(keys, Head(names)) IN
         IF found = <<>>
         THEN [ok |-> FALSE, ordered_keys |-> <<>>, error |-> "unknown_key"]
         ELSE LET key == found[1].key IN
              IF \E i \in 1..Len(ordered) : ordered[i].name = key.name /\ ordered[i] # key
              THEN [ok |-> FALSE, ordered_keys |-> <<>>, error |-> "two_keys_one_name"]
              ELSE KeysLoop(Tail(names), keys, Append(ordered, key))

\* Template._keys_from_definition
KeysFromDefinition(definition, keys) == KeysLoop(KeyNamesOf(definition), keys, <<>>)

\* the dictionary names_keys built by _keys_from_definition: key name -> key
NamedKeys(ordered) ==
    [n \in {ordered[i].name : i \in 1..Len(ordered)} |->
        (CHOOSE k \in {ordered[i] : i \in 1..Len(ordered)} : k.name = n)]

\* the expanded definition of Template._calc_static_tokens
Expanded(prefix, definition) ==
    IF definition # <<>> THEN PathJoin(prefix, definition) ELSE prefix

\* Template._calc_static_tokens
CalcStaticTokens(prefix, definition) ==
    LET e == Lower(Expanded(prefix, definition))
    IN SelectSeq(SplitKeysFrom(e, KeyMatches(e), 0), NonEmpty)

RECURSIVE JoinAll(_)
\* os.path.join(*tokens)
JoinAll(tokens) ==
    IF Len(tokens) = 1 THEN tokens[1]
    ELSE PathJoin(JoinAll(SubSeq(tokens, 1, Len(tokens) - 1)), tokens[Len(tokens)])

\* split_path
split_path(input_path) == Split(NormPath(input_path), Sep)

\* the record of one variation: Template.__init__, and for a TemplatePath the
\* recalculation of TemplatePath.__init__
VarInfo(cls, var_name, keys, prefix) ==
    LET ordered == KeysFromDefinition(var_name, keys).ordered_keys
        fixed == FixKeyNames(var_name, keys)
        definition == IF cls = "TemplatePath" THEN JoinAll(split_path(fixed)) ELSE fixed
    IN [name |-> var_name,
        keys |-> NamedKeys(ordered),
        ordered_keys |-> ordered,
        definition |-> definition,
        static_tokens |-> CalcStaticTokens(prefix, definition),
        expanded |-> Expanded(prefix, definition)]

\* the first error raised while constructing, or "none"
ConstructError(definition, keys) ==
    LET vs == DefinitionVariations(definition) IN
    IF ~vs.ok THEN vs.error
    ELSE LET bad == SelectSeq(vs.defs, LAMBDA d : ~KeysFromDefinition(d, keys).ok)
         IN IF bad = <<>> THEN "none" ELSE KeysFromDefinition(bad[1], keys).error

\* Template.__init__ (TemplatePath.__init__, TemplateString.__init__): the
\* constructed object
Construct(cls, definition, keys, prefix) ==
    LET names == Dedupe(DefinitionVariations(definition).defs, <<>>)
    IN [cls |-> cls,
        prefix |-> prefix,
        variations |-> [i \in 1..Len(names) |-> VarInfo(cls, names[i], keys, prefix)]]
\* TemplatePath.__init__: per_platform_roots maps a platform to its root
\* (None when the platform has none), or is None
ConstructPath(definition, keys, root_path, per_platform_roots) ==
    [cls |-> "TemplatePath",
     prefix |-> root_path,
     variations |-> Construct("TemplatePath", definition, keys, root_path).variations,
     per_platform_roots |-> per_platform_roots]

\* TemplateString.__init__: validate_with is a template, NoTemplate for None
ConstructString(definition, keys, validate_with) ==
    [cls |-> "TemplateString",
     prefix |-> <<"@">>,
     variations |-> Construct("TemplateString", definition, keys, <<"@">>).variations,
     validate_with |-> validate_with]

(***************************************************************************)
(* ParsedPath: parsing one input against one variation.                    *)
(***************************************************************************)
\* an error message, by its kind and the token or key name it cites
Error(kind, what) == [kind |-> kind, what |-> what]

\* last_error = None
NoError == Error("None", <<>>)

LitPart(token) == [isKey |-> FALSE, lit |-> token, key |-> None]

KeyPart(key) == [isKey |-> TRUE, lit |-> <<>>, key |-> key]

RECURSIVE PartsLoop(_, _, _, _)
\* the loop of ParsedPath._create_definition_parts over the key references found
PartsLoop(definition, ms, named_keys, token_start) ==
    IF ms = <<>>
    THEN IF token_start < Len(definition)
         THEN <<LitPart(Slice(definition, token_start, Len(definition)))>> ELSE <<>>
    ELSE LET found == Head(ms)
             token == Slice(definition, token_start, found.start)
         IN (IF token # <<>> THEN <<LitPart(token)>> ELSE <<>>)
            \o (IF found.name \in DOMAIN named_keys
                THEN <<KeyPart(named_keys[found.name])>> ELSE <<>>)
            \o PartsLoop(definition, Tail(ms), named_keys, found.end)

\* ParsedPath._create_definition_parts
CreateDefinitionParts(definition, named_keys) ==
    PartsLoop(definition, KeyMatches(definition), named_keys, 0)

\* ParsedPath.ordered_keys
OrderedKeysOf(parts) ==
    LET ks == SelectSeq(parts, LAMBDA part : part.isKey)
    IN [i \in 1..Len(ks) |-> ks[i].key]

\* ParsedPath._empty_ordered_keys_fields: [ok, fields, error]
EmptyOrderedKeysFields(static_tokens, lower_path, last_error) ==
    IF static_tokens = <<>> THEN [ok |-> FALSE, fields |-> <<>>, error |-> last_error]
    ELSE IF lower_path = static_tokens[1] THEN [ok |-> TRUE, fields |-> <<>>, error |-> last_error]
    ELSE [ok |-> FALSE, fields |-> <<>>, error |-> Error("no_keys_mismatch", static_tokens[1])]

RECURSIVE TokenLoop(_, _, _, _)
\* the first loop of _get_token_positions: [positions, error]; the loop
\* breaks at the first token that is not found
TokenLoop(tokens, lower_path, start_pos, acc) ==
    IF tokens = <<>> THEN [positions |-> acc, broke |-> FALSE, error |-> NoError]
    ELSE LET token == Head(tokens)
             positions == SelectSeq(FindIter(token, lower_path), LAMBDA pos : pos >= start_pos)
         IN IF positions # <<>>
            THEN TokenLoop(Tail(tokens), lower_path, positions[1] + Len(token),
                           Append(acc, positions))
            ELSE [positions |-> acc, broke |-> TRUE, error |-> Error("token_not_found", token)]

\* max(positions)
MaxOf(positions) == CHOOSE m \in {positions[i] : i \in 1..Len(positions)} :
                       \A i \in 1..Len(positions) : positions[i] <= m

RECURSIVE PruneLoop(_, _, _)
\* the second loop of _get_token_positions, from the last token to the first
PruneLoop(token_positions, index, max_index) ==
    IF index = 0 THEN token_positions
    ELSE LET new_positions == SelectSeq(token_positions[index], LAMBDA pos : pos < max_index)
         IN PruneLoop([token_positions EXCEPT ![index] = new_positions], index - 1,
                      IF new_positions # <<>> THEN MaxOf(new_positions) ELSE 0)

\* ParsedPath._get_token_positions: [positions, error]
GetTokenPositions(static_tokens, lower_path) ==
    LET r == TokenLoop(static_tokens, lower_path, 0, <<>>)
    IN IF r.broke THEN [positions |-> r.positions, error |-> r.error]
       ELSE [positions |-> PruneLoop(r.positions, Len(r.positions), Len(lower_path)),
             error |-> NoError]

\* a ResolvedValue
ResolvedValue(value, downstream_values, fully_resolved, last_error) ==
    [value |-> value, downstream_values |-> downstream_values,
     fully_resolved |-> fully_resolved, last_error |-> last_error]

RECURSIVE LastErrorOf(_, _)
\* the last_error a node takes over from its downstream values
LastErrorOf(downstream, last_error) ==
    IF downstream = <<>> THEN last_error
    ELSE LastErrorOf(Tail(downstream),
                     IF Head(downstream).last_error # NoError
                     THEN Head(downstream).last_error ELSE last_error)

\* the test of the candidate ends without the comparison with key.length; the
\* parser does not test so, the fixed-length claim is shown to depend on the
\* comparison with it
CandidateKeptAnyLength(path, key, key_position, token_position, key_values, skip_keys) ==
    LET possible_value_str == Slice(path, key_position, token_position) IN
    /\ token_position > key_position
    /\ \/ key.name \in skip_keys
       \/ /\ ~HasChar(possible_value_str, Sep)
          /\ ~(key.name \in DOMAIN key_values /\ key_values[key.name] # <<>>
               /\ possible_value_str # key_values[key.name])
          /\ value_from_str(key, possible_value_str).ok

\* whether the loop body of __find_possible_key_values_recursive reaches the
\* append for the candidate end token_position (no "continue" is taken)
CandidateKept(path, key, key_position, token_position, key_values, skip_keys) ==
    LET possible_value_str == Slice(path, key_position, token_position) IN
    /\ token_position > key_position
    /\ ~(key.length # 0 /\ token_position - key_position < key.length)
    /\ \/ key.name \in skip_keys
       \/ /\ ~HasChar(possible_value_str, Sep)
          /\ ~(key.name \in DOMAIN key_values /\ key_values[key.name] # <<>>
               /\ possible_value_str # key_values[key.name])
          /\ value_from_str(key, possible_value_str).ok

\* whether a candidate with keys left to process, ending at token_position
\* before a token of length token_len, counts as fully resolved without a
\* value for the remaining keys
RanOutOfPath(path, token_position, token_len) ==
    token_position + token_len >= Len(path)

RECURSIVE FindPossibleKeyValues(_, _, _, _, _, _, _)
\* ParsedPath.__find_possible_key_values_recursive
FindPossibleKeyValues(path, key_position, tokens0, token_positions0, keys0, key_values, skip_keys) ==
    LET key == Head(keys0)
        keys == Tail(keys0)
        token == IF tokens0 # <<>> THEN Head(tokens0) ELSE <<>>
        tokens == IF tokens0 # <<>> THEN Tail(tokens0) ELSE <<>>
        positions == IF token_positions0 # <<>> THEN Head(token_positions0) ELSE <<Len(path)>>
        token_positions == IF token_positions0 # <<>> THEN Tail(token_positions0) ELSE <<>>
        kept == SelectSeq(positions, LAMBDA pos :
                    CandidateKept(path, key, key_position, pos, key_values, skip_keys))
        Node(token_position) ==
            LET possible_value_str == Slice(path, key_position, token_position)
                possible_value == IF key.name \in skip_keys THEN possible_value_str
                                  ELSE value_from_str(key, possible_value_str).value
            IN IF keys # <<>>
               THEN IF RanOutOfPath(path, token_position, Len(token))
                    THEN ResolvedValue(possible_value, <<>>, TRUE, NoError)
                    ELSE LET downstream == FindPossibleKeyValues(
                                 path, token_position + Len(token), tokens, token_positions, keys,
                                 [n \in (DOMAIN key_values) \cup {key.name} |->
                                     IF n = key.name THEN possible_value_str ELSE key_values[n]],
                                 skip_keys)
                         IN ResolvedValue(possible_value, downstream,
                                \E i \in 1..Len(downstream) : downstream[i].fully_resolved,
                                LastErrorOf(downstream, NoError))
               ELSE IF tokens # <<>>
                    THEN ResolvedValue(possible_value, <<>>, FALSE, NoError)
               ELSE IF token_position + Len(token) # Len(path)
                    THEN ResolvedValue(possible_value, <<>>, FALSE, NoError)
               ELSE ResolvedValue(possible_value, <<>>, TRUE, NoError)
    IN [i \in 1..Len(kept) |-> Node(kept[i])]

\* the index of the first element of values equal to v (list.index), 0 if none
IndexOf(values, v) ==
    IF \E i \in 1..Len(values) : values[i] = v
    THEN CHOOSE i \in 1..Len(values) : values[i] = v /\ \A j \in 1..(i - 1) : values[j] # v
    ELSE 0

\* self.fields[name] = value
SetField(fields, name, value) ==
    [n \in (DOMAIN fields) \cup {name} |-> IF n = name THEN value ELSE fields[n]]

RECURSIVE ResolveLoop(_, _, _, _, _)
\* the loop of parse_path over ordered_keys that reads the single set of
\* values off the tree of possible values: [ok, fields, error]
ResolveLoop(keys, possible_values, fields, skip_keys, last_error) ==
    IF keys = <<>> \/ possible_values = <<>>
    THEN [ok |-> TRUE, fields |-> fields, error |-> last_error]
    ELSE LET key == Head(keys)
             Step(key_value, downstream) ==
                 ResolveLoop(Tail(keys), downstream,
                             IF key_value # None /\ key.name \notin skip_keys
                             THEN SetField(fields, key.name, key_value) ELSE fields,
                             skip_keys, last_error)
         IN IF Len(possible_values) = 1
            THEN IF ~possible_values[1].fully_resolved
                 THEN [ok |-> FALSE, fields |-> <<>>, error |-> possible_values[1].last_error]
                 ELSE Step(possible_values[1].value, possible_values[1].downstream_values)
            ELSE LET resolved == SelectSeq(possible_values, LAMBDA v : v.fully_resolved) IN
                 IF Len(resolved) = 1
                 THEN Step(resolved[1].value, resolved[1].downstream_values)
                 ELSE LET ambiguous_results == IF Len(resolved) > 1 THEN resolved
                                               ELSE possible_values
                          ambiguous_values == [i \in 1..Len(ambiguous_results) |->
                                                  ambiguous_results[i].value]
                          key_value == IF key.name \in DOMAIN fields THEN fields[key.name]
                                       ELSE None
                          index == IndexOf(ambiguous_values, key_value)
                      IN IF key_value # None /\ index # 0
                         THEN Step(key_value, ambiguous_results[index].downstream_values)
                         ELSE [ok |-> FALSE, fields |-> <<>>,
                               error |-> Error("ambiguous", key.name)]

\* whether parse_path tries the family in which the path starts with the
\* first static token
StartsWithToken(parts, token_positions) == ~parts[1].isKey

\* the possible values parse_path collects from the two structural families
PossibleValues(input_path, parts, static_tokens, token_positions, skip_keys) ==
    LET ordered_keys == OrderedKeysOf(parts)
        num_keys == Len(ordered_keys)
        num_tokens == Len(static_tokens)
        token_first == StartsWithToken(parts, token_positions)
        first == IF token_first /\ num_keys >= num_tokens - 1
                 THEN FindPossibleKeyValues(input_path, Len(static_tokens[1]),
                          Tail(static_tokens), Tail(token_positions), ordered_keys,
                          <<>>, skip_keys)
                 ELSE <<>>
        rest == IF token_first
                THEN [token_positions EXCEPT ![1] =
                         IF token_positions[1] = <<>> THEN <<>> ELSE Tail(token_positions[1])]
                ELSE token_positions
        second == IF Len(rest[1]) > 0 /\ num_keys >= num_tokens
                  THEN FindPossibleKeyValues(input_path, 0, static_tokens, rest,
                           ordered_keys, <<>>, skip_keys)
                  ELSE <<>>
    IN first \o second

\* whether parse_path gives up after _get_token_positions ("didn't find all tokens")
TokensMissing(static_tokens, token_positions) ==
    ~(token_positions # <<>> /\ token_positions[Len(token_positions)] # <<>>)

\* ParsedPath.parse_path: [ok, fields, error]; not ok stands for fields = None
ParsePath(input_path, parts, static_tokens, skip_keys) ==
    LET lower_path == Lower(input_path)
        ordered_keys == OrderedKeysOf(parts)
    IN IF ordered_keys = <<>>
       THEN EmptyOrderedKeysFields(static_tokens, lower_path, NoError)
       ELSE LET tp == GetTokenPositions(static_tokens, lower_path) IN
            IF TokensMissing(static_tokens, tp.positions)
            THEN [ok |-> FALSE, fields |-> <<>>, error |-> tp.error]
            ELSE LET possible_values == PossibleValues(input_path, parts, static_tokens,
                                                       tp.positions, skip_keys)
                 IN IF possible_values = <<>>
                    THEN [ok |-> FALSE, fields |-> <<>>,
                          error |-> IF tp.error = NoError THEN Error("not_fit", <<>>)
                                    ELSE tp.error]
                    ELSE ResolveLoop(ordered_keys, possible_values, <<>>, skip_keys, tp.error)

\* ParsedPath.__init__: the parser's fields and last_error for one variation
ParsedPath(input_path, var_info, skip_keys) ==
    ParsePath(NormPath(input_path),
              CreateDefinitionParts(var_info.expanded, var_info.keys),
              [i \in 1..Len(var_info.static_tokens) |-> Lower(var_info.static_tokens[i])],
              skip_keys)

(***************************************************************************)
(* Template: get_fields, missing_keys, apply_fields.  A fields mapping is  *)
(* a function from key names to values; fields.get(name) is None both for  *)
(* an absent name and for a name mapped to None.                           *)
(***************************************************************************)
FieldsGet(fields, name) == IF name \in DOMAIN fields THEN fields[name] ELSE None

\* a visiting order that starts with the shortest variation; get_fields does
\* not use it, the longest-first claim is shown to depend on the order with it
ShortestFirstOrder(t) == [i \in 1..Len(t.variations) |-> Len(t.variations) + 1 - i]

\* the order in which get_fields and _apply_fields visit self._variations
VariationOrder(t) == [i \in 1..Len(t.variations) |-> i]

\* the input handed to the parser: TemplateString.get_fields joins the prefix
AdjustedPath(t, input_path) ==
    IF t.cls = "TemplateString" THEN PathJoin(t.prefix, input_path) ELSE input_path

RECURSIVE GetFieldsLoop(_, _, _, _, _)
\* the loop of Template.get_fields over the variations still to be tried;
\* last is the result of the parser constructed last
GetFieldsLoop(t, order, input_path, skip_keys, last) ==
    IF order = <<>> THEN [kind |-> "error", fields |-> <<>>, index |-> 0, error |-> last.error]
    ELSE LET path == ParsedPath(input_path, t.variations[Head(order)], skip_keys) IN
         IF path.ok
         THEN [kind |-> "fields", fields |-> path.fields, index |-> Head(order),
               error |-> path.error]
         ELSE GetFieldsLoop(t, Tail(order), input_path, skip_keys, path)

\* Template.get_fields (TemplateString.get_fields): the fields returned and
\* the index of the variation that gave them, or the TankError raised
GetFields(t, input_path, skip_keys) ==
    GetFieldsLoop(t, VariationOrder(t), AdjustedPath(t, input_path), skip_keys,
                  [ok |-> FALSE, fields |-> <<>>, error |-> NoError])

\* the fields of the parse whatever the required fields; it is not what
\* validate_and_get_fields does, the validate claim is shown to depend on the
\* comparison with it
FieldsUnchecked(t, path, required_fields, skip_keys) ==
    LET g == GetFields(t, path, skip_keys) IN
    IF g.kind = "error" THEN [kind |-> "None", fields |-> <<>>, parse |-> g]
    ELSE [kind |-> "fields", fields |-> g.fields, parse |-> g]

\* the rest of validate_and_get_fields once get_fields has returned or raised
\* g: None for a TankError or a required field that differs from the parse
CompareFields(g, required_fields, skip_keys) ==
    IF g.kind = "error" THEN [kind |-> "None", fields |-> <<>>, parse |-> g]
    ELSE IF \E key \in DOMAIN required_fields :
               key \notin skip_keys /\ FieldsGet(g.fields, key) # required_fields[key]
         THEN [kind |-> "None", fields |-> <<>>, parse |-> g]
         ELSE [kind |-> "fields", fields |-> g.fields, parse |-> g]

\* Template.validate_and_get_fields: the fields returned or None, and the
\* result of the get_fields call made
ValidateAndGetFields(t, path, required_fields, skip_keys) ==
    CompareFields(GetFields(t, path, skip_keys), required_fields, skip_keys)

\* "is not None" of the value validate_and_get_fields returned
IsNotNone(r) == [kind |-> "bool", value |-> r.kind # "None", parse |-> r.parse]

\* Template.validate
Validate(t, path, fields, skip_keys) ==
    IsNotNone(ValidateAndGetFields(t, path, fields, skip_keys))

\* the names without a value whatever their default; _missing_keys does not
\* use it, the missing_keys claim is shown to depend on skip_defaults with it
MissingWhateverDefault(fields, keys, skip_defaults) ==
    {n \in DOMAIN keys : FieldsGet(fields, n) = None}

\* Template._missing_keys: the names, as a set
MissingKeysOf(fields, keys, skip_defaults) ==
    {n \in DOMAIN keys :
        /\ (skip_defaults => keys[n].default = None)
        /\ FieldsGet(fields, n) = None}

\* the key dictionary of the longest variation; missing_keys does not use it,
\* the missing-fields claim is shown to depend on the choice of min with it
LongestKeys(t) == t.variations[1].keys

\* min(self._keys): the key dictionary with the fewest entries (dictionaries
\* of equal size of one template's variations are equal)
MinKeys(t) ==
    LET i == CHOOSE i \in 1..Len(t.variations) :
                 \A j \in 1..Len(t.variations) :
                     /\ Cardinality(DOMAIN t.variations[i].keys)
                            <= Cardinality(DOMAIN t.variations[j].keys)
                     /\ (j < i => Cardinality(DOMAIN t.variations[j].keys)
                                     > Cardinality(DOMAIN t.variations[i].keys))
    IN t.variations[i].keys

\* Template.missing_keys
MissingKeys(t, fields, skip_defaults) == MissingKeysOf(fields, MinKeys(t), skip_defaults)

\* whether the key name is absent from the longest variation; is_optional
\* does not use it, the optionality claim is shown to depend on min with it
AbsentFromLongest(t, key_name) == key_name \notin DOMAIN t.variations[1].keys

\* Template.is_optional
IsOptional(t, key_name) == key_name \notin DOMAIN MinKeys(t)

RECURSIVE RenderFrom(_, _, _, _)
\* cleaned_definition % processed_fields: every reference replaced by its string
RenderFrom(definition, ms, processed, from) ==
    IF ms = <<>> THEN Slice(definition, from, Len(definition))
    ELSE Slice(definition, from, Head(ms).start) \o processed[Head(ms).name]
         \o RenderFrom(definition, Tail(ms), processed, Head(ms).end)

Render(definition, processed) == RenderFrom(definition, KeyMatches(definition), processed, 0)

RECURSIVE ChooseLastVariation(_, _, _)
\* the index of the last variation without missing keys, or 0; _apply_fields
\* does not use it, the rendering claim is shown to depend on the break with it
ChooseLastVariation(t, order, fields) ==
    IF order = <<>> THEN 0
    ELSE LET later == ChooseLastVariation(t, Tail(order), fields) IN
         IF later # 0 THEN later
         ELSE IF \A n \in DOMAIN t.variations[Head(order)].keys :
                    t.variations[Head(order)].keys[n].default = None
                        => FieldsGet(fields, n) # None
              THEN Head(order) ELSE 0

RECURSIVE ChooseVariation(_, _, _)
\* the loop of _apply_fields over the key dictionaries: the index of the first
\* variation without missing keys, or 0
ChooseVariation(t, order, fields) ==
    IF order = <<>> THEN 0
    ELSE IF MissingKeysOf(fields, t.variations[Head(order)].keys, TRUE) = {} THEN Head(order)
    ELSE ChooseVariation(t, Tail(order), fields)

\* Template._apply_fields: the string rendered, or the TankError raised
BaseApplyFields(t, fields) ==
    LET index == ChooseVariation(t, VariationOrder(t), fields) IN
    IF index = 0
    THEN [kind |-> "error", error |-> "missing_fields", str |-> <<>>, index |-> 0,
          missing |-> MissingKeysOf(fields, t.variations[Len(t.variations)].keys, TRUE)]
    ELSE LET keys == t.variations[index].keys
             processed == [n \in DOMAIN keys |-> str_from_value(keys[n], FieldsGet(fields, n))]
         IN IF \E n \in DOMAIN keys : ~processed[n].ok
            THEN [kind |-> "error", error |-> "conversion", str |-> <<>>, index |-> index,
                  missing |-> {}]
            ELSE [kind |-> "string", error |-> "none", index |-> index, missing |-> {},
                  str |-> Render(t.variations[index].definition,
                                 [n \in DOMAIN keys |-> processed[n].str])]

\* apply_fields with platform None: TemplatePath._apply_fields joins the root
ApplyFields(t, fields) ==
    LET r == BaseApplyFields(t, fields) IN
    IF t.cls = "TemplatePath" /\ r.kind = "string"
    THEN [r EXCEPT !.str = IF r.str # <<>> THEN PathJoin(t.prefix, r.str) ELSE t.prefix]
    ELSE r

\* the string as it is; str.replace does not return that, the platform claim
\* is shown to depend on the conversion of the separators with it
Unreplaced(s, old, new) == s

\* s.replace(old, new) for single characters
Replace(s, old, new) == [i \in 1..Len(s) |-> IF s[i] = old THEN new ELSE s[i]]

\* "linux" in platform, for the platform names of the model
ContainsLinux(platform) == platform \in {"linux", "linux2", "linux3"}

\* self._per_platform_roots.get(platform)
PlatformRootOf(roots, platform) == IF platform \in DOMAIN roots THEN roots[platform] ELSE None

\* TemplatePath._apply_fields with a platform: the path or the TankError
ApplyFieldsPlatform(t, fields, platform) ==
    LET r == BaseApplyFields(t, fields)
        failed(error) == [kind |-> "error", error |-> error, str |-> <<>>,
                          index |-> r.index, missing |-> {}]
    IN IF r.kind # "string" THEN r
       ELSE IF t.per_platform_roots = None THEN failed("no_platform_roots")
       ELSE LET platform_root_path == PlatformRootOf(t.per_platform_roots, platform) IN
            IF platform_root_path = None THEN failed("no_root_for_platform")
            ELSE IF platform = "win32"
                 THEN [r EXCEPT !.str = IF r.str # <<>>
                                        THEN platform_root_path \o <<"\\">> \o Replace(r.str, Sep, "\\")
                                        ELSE platform_root_path]
            ELSE IF platform = "darwin" \/ ContainsLinux(platform)
                 THEN [r EXCEPT !.str = IF r.str # <<>>
                                        THEN platform_root_path \o <<"/">> \o Replace(r.str, Sep, "/")
                                        ELSE platform_root_path]
            ELSE failed("unsupported_platform")

(***************************************************************************)
(* The templates and calls of the model.                                   *)
(***************************************************************************)
KeyX == [name |-> <<"x">>, length |-> 0, default |-> None, kind |-> "str"]

KeyY == [name |-> <<"y">>, length |-> 0, default |-> None, kind |-> "str"]

KeyZ == [name |-> <<"z">>, length |-> 0, default |-> <<"a">>, kind |-> "alnum"]

\* a key of fixed length
KeyV == [name |-> <<"v">>, length |-> 2, default |-> None, kind |-> "str"]

KeyTable == <<[alias |-> <<"x">>, key |-> KeyX],
              [alias |-> <<"y">>, key |-> KeyY],
              [alias |-> <<"z">>, key |-> KeyZ],
              [alias |-> <<"v">>, key |-> KeyV]>>

\* the roots of the storage of the path templates, by platform: sunos has
\* a root but is not supported, cygwin is mapped to None
PlatformRoots ==
    [p \in {"win32", "linux2", "darwin", "sunos", "cygwin"} |->
        CASE p = "win32" -> <<"w", ":">>
          [] p = "linux2" -> <<"/", "a">>
          [] p = "darwin" -> <<"/", "d">>
          [] p = "sunos" -> <<"/", "s">>
          [] OTHER -> None]

\* the platform arguments of the model; irix has no entry in the roots
Platforms == {"win32", "linux2", "darwin", "sunos", "cygwin", "irix"}

\* the template a string template is told to validate with
Validator == Construct("Template", <<"{", "x", "}", "_", "{", "y", "}">>, KeyTable, <<>>)

\* the definitions templates are constructed from: class, definition, prefix,
\* and the per_platform_roots or validate_with argument of the subclasses
Definitions ==
    { [cls |-> "Template", prefix |-> <<>>, extra |-> None,
       definition |-> <<"A", "{", "x", "}", "_">>],
      [cls |-> "Template", prefix |-> <<>>, extra |-> None,
       definition |-> <<"{", "x", "}", "_", "{", "y", "}">>],
      [cls |-> "Template", prefix |-> <<>>, extra |-> None,
       definition |-> <<"{", "x", "}", "_", "{", "x", "}">>],
      [cls |-> "Template", prefix |-> <<>>, extra |-> None,
       definition |-> <<"a", "{", "x", "}", "_", "{", "y", "}">>],
      [cls |-> "Template", prefix |-> <<>>, extra |-> None,
       definition |-> <<"{", "x", "}", "a", "a", "{", "y", "}">>],
      [cls |-> "Template", prefix |-> <<>>, extra |-> None,
       definition |-> <<"[", "{", "y", "}", "_", "{", "x", "}", "]", "a">>],
      [cls |-> "Template", prefix |-> <<>>, extra |-> None,
       definition |-> <<"{", "z", "}", "_", "{", "x", "}">>],
      [cls |-> "Template", prefix |-> <<>>, extra |-> None,
       definition |-> <<"{", "v", "}", "_", "{", "x", "}">>],
      [cls |-> "Template", prefix |-> <<>>, extra |-> None,
       definition |-> <<"{", "y", "}", "_", "{", "y", "}">>],
      [cls |-> "TemplatePath", prefix |-> <<"/", "a">>, extra |-> None,
       definition |-> <<"{", "x", "}", "[", "_", "{", "z", "}", "]">>],
      [cls |-> "TemplatePath", prefix |-> <<"/", "a">>, extra |-> PlatformRoots,
       definition |-> <<"[", "{", "x", "}", "]">>],
      [cls |-> "TemplateString", prefix |-> <<"@">>, extra |-> Validator,
       definition |-> <<"{", "x", "}", "[", "_", "{", "y", "}", "]">>] }

\* the template constructed from one of the definitions
Build(d) ==
    CASE d.cls = "TemplatePath" -> ConstructPath(d.definition, KeyTable, d.prefix, d.extra)
      [] d.cls = "TemplateString" -> ConstructString(d.definition, KeyTable, d.extra)
      [] OTHER -> Construct(d.cls, d.definition, KeyTable, d.prefix)

\* the skip_keys arguments of the model
SkipSets == {{}, {<<"y">>}, {<<"v">>}}

\* the key names of a template, over all its variations
TemplateKeyNames(t) == UNION {DOMAIN t.variations[i].keys : i \in 1..Len(t.variations)}

\* the skip_keys arguments a template is called with: those naming its keys
SkipSetsOf(t) == {s \in SkipSets : s \subseteq TemplateKeyNames(t)}

\* the field values of the model
Values == Strings(InputChars, 1, MaxValLen)

Idle == [kind |-> "none"]

\* the key names is_optional is asked about: the template's and a foreign one
QueryNames(t) == TemplateKeyNames(t) \cup {<<"w">>}

\* the required fields validate is called with: some of the template's key
\* names, each with the value "a" or None
RequiredFieldSets(t) ==
    UNION {[names -> {<<"a">>, None}] : names \in SUBSET TemplateKeyNames(t)}

\* the number of ParsedPath objects a get_fields call with this result has
\* constructed: one per variation tried
ParsersBuilt(t, r) == IF r.kind = "fields" THEN r.index ELSE Len(t.variations)

Init ==
    /\ tmpl \in {Build(d) : d \in Definitions}
    /\ op = "none"
    /\ arg = <<>>
    /\ skip = {}
    /\ res = Idle
    /\ handlers = 0

\* a call of get_fields(input_path, skip_keys) on the template
CallGetFields ==
    /\ op = "none"
    /\ handlers < MaxHandlers
    /\ \E input_path \in Strings(InputChars, 0, MaxLen), skip_keys \in SkipSetsOf(tmpl) :
          /\ op' = "get_fields"
          /\ arg' = input_path
          /\ skip' = skip_keys
          /\ res' = GetFields(tmpl, input_path, skip_keys)
          /\ handlers' = handlers + ParsersBuilt(tmpl, res')
    /\ UNCHANGED tmpl

\* a call of apply_fields(fields) on the template
CallApplyFields ==
    /\ op = "none"
    /\ \E fields \in [TemplateKeyNames(tmpl) -> Values \cup {None}] :
          /\ op' = "apply_fields"
          /\ arg' = fields
          /\ skip' = {}
          /\ res' = ApplyFields(tmpl, fields)
    /\ UNCHANGED <<tmpl, handlers>>

\* a call of apply_fields(fields, platform=platform) on a path template; the
\* values include the empty string
CallApplyFieldsPlatform ==
    /\ op = "none"
    /\ tmpl.cls = "TemplatePath"
    /\ \E fields \in [TemplateKeyNames(tmpl) -> Values \cup {None, <<>>}], platform \in Platforms :
          /\ op' = "apply_fields_platform"
          /\ arg' = [fields |-> fields, platform |-> platform]
          /\ skip' = {}
          /\ res' = ApplyFieldsPlatform(tmpl, fields, platform)
    /\ UNCHANGED <<tmpl, handlers>>

\* a call of is_optional(key_name) on the template
CallIsOptional ==
    /\ op = "none"
    /\ \E key_name \in QueryNames(tmpl) :
          /\ op' = "is_optional"
          /\ arg' = key_name
          /\ skip' = {}
          /\ res' = [kind |-> "bool", value |-> IsOptional(tmpl, key_name)]
    /\ UNCHANGED <<tmpl, handlers>>

\* a call of missing_keys(fields, skip_defaults) on the template
CallMissingKeys ==
    /\ op = "none"
    /\ \E fields \in [TemplateKeyNames(tmpl) -> Values \cup {None}], skip_defaults \in BOOLEAN :
          /\ op' = "missing_keys"
          /\ arg' = fields
          /\ skip' = {}
          /\ res' = [kind |-> "names", skip_defaults |-> skip_defaults,
                     value |-> MissingKeys(tmpl, fields, skip_defaults)]
    /\ UNCHANGED <<tmpl, handlers>>

\* a call of validate_and_get_fields(path, required_fields, skip_keys)
CallValidateAndGetFields ==
    /\ op = "none"
    /\ handlers < MaxHandlers
    /\ \E path \in Strings(InputChars, 0, MaxValidateLen),
          required_fields \in RequiredFieldSets(tmpl), skip_keys \in SkipSetsOf(tmpl) :
          /\ op' = "validate_and_get_fields"
          /\ arg' = [path |-> path, fields |-> required_fields]
          /\ skip' = skip_keys
          /\ res' = ValidateAndGetFields(tmpl, path, required_fields, skip_keys)
          /\ handlers' = handlers + ParsersBuilt(tmpl, res'.parse)
    /\ UNCHANGED tmpl

\* a call of validate(path, fields, skip_keys)
CallValidate ==
    /\ op = "none"
    /\ handlers < MaxHandlers
    /\ \E path \in Strings(InputChars, 0, MaxValidateLen),
          fields \in RequiredFieldSets(tmpl), skip_keys \in SkipSetsOf(tmpl) :
          /\ op' = "validate"
          /\ arg' = [path |-> path, fields |-> fields]
          /\ skip' = skip_keys
          /\ res' = Validate(tmpl, path, fields, skip_keys)
          /\ handlers' = handlers + ParsersBuilt(tmpl, res'.parse)
    /\ UNCHANGED tmpl

\* the caller drops the result; the template is ready for the next call
Return ==
    /\ op # "none"
    /\ op' = "none"
    /\ arg' = <<>>
    /\ skip' = {}
    /\ res' = Idle
    /\ UNCHANGED <<tmpl, handlers>>

Next ==
    \/ CallGetFields
    \/ CallApplyFields
    \/ CallApplyFieldsPlatform
    \/ CallIsOptional
    \/ CallMissingKeys
    \/ CallValidateAndGetFields
    \/ CallValidate
    \/ Return

Spec == Init /\ [][Next]_vars

(***************************************************************************)
(* Construction of a template from a definition.                           *)
(***************************************************************************)
\* no template constructed
NoTemplate == [cls |-> "none"]

\* the pieces definitions are put together from
Pieces ==
    { <<"a">>,
      <<"{", "x", "}">>,
      <<"[", "{", "x", "}", "]">>,
      <<"[", "_", "{", "y", "}", "]">>,
      <<"[", "a", "}", "]">>,
      <<"[", "a", "]">>,
      <<"[", "x", "[", "{", "y", "}", "]">>,
      <<"]">>,
      <<"[", "{", "y", "}">> }

\* the definitions handed to the constructor
DefinitionInputs == {Concat(ps) : ps \in UNION {[1..n -> Pieces] : n \in 0..MaxSegs}}

DefInit ==
    /\ tmpl = NoTemplate
    /\ op = "none"
    /\ arg = <<>>
    /\ skip = {}
    /\ res = Idle
    /\ handlers = 0

\* Template(definition, keys): the object constructed or the TankError raised
ConstructTemplate ==
    /\ op = "none"
    /\ tmpl = NoTemplate
    /\ \E definition \in DefinitionInputs :
          LET error == ConstructError(definition, KeyTable) IN
          /\ op' = "construct"
          /\ arg' = definition
          /\ res' = [kind |-> IF error = "none" THEN "template" ELSE "error", error |-> error]
          /\ tmpl' = IF error = "none" THEN Construct("Template", definition, KeyTable, <<>>)
                     ELSE NoTemplate
    /\ UNCHANGED <<skip, handlers>>

DefNext == ConstructTemplate

DefSpec == DefInit /\ [][DefNext]_vars

(***************************************************************************)
(* Reference notions the claims are stated with.                           *)
(***************************************************************************)
\* the call in the current state
IsGetFields == op = "get_fields"

IsApply == op = "apply_fields"

Parsed == IsGetFields /\ res.kind = "fields"

\* the normalised input the parser worked on
InputPath == NormPath(AdjustedPath(tmpl, arg))

\* the parts of variation i of the template
PartsOf(i) == CreateDefinitionParts(tmpl.variations[i].expanded, tmpl.variations[i].keys)

RECURSIVE ParsesFrom(_, _, _, _, _)
\* the field mappings of the consistent parses of path[pos:] against parts:
\* every literal equals its slice case-insensitively, every key is bound to a
\* non-empty slice its key accepts, occurrences of one key are bound alike,
\* nothing of the path is left over; fields holds the bindings made so far
ParsesFrom(path, pos, parts, fields, skip_keys) ==
    IF parts = <<>> THEN (IF pos = Len(path) THEN {fields} ELSE {})
    ELSE LET part == Head(parts) IN
         IF ~part.isKey
         THEN IF StartsAt(Lower(path), Lower(part.lit), pos)
              THEN ParsesFrom(path, pos + Len(part.lit), Tail(parts), fields, skip_keys)
              ELSE {}
         ELSE UNION {
                LET sub == Slice(path, pos, e)
                    v == value_from_str(part.key, sub)
                IN IF part.key.name \in skip_keys
                   THEN ParsesFrom(path, e, Tail(parts), fields, skip_keys)
                   ELSE IF /\ ~HasChar(sub, Sep)
                           /\ (part.key.length # 0 => Len(sub) >= part.key.length)
                           /\ v.ok
                           /\ (part.key.name \in DOMAIN fields => fields[part.key.name] = v.value)
                        THEN ParsesFrom(path, e, Tail(parts),
                                        SetField(fields, part.key.name, v.value), skip_keys)
                        ELSE {}
                : e \in (pos + 1)..Len(path) }

\* the consistent parses of the input against variation i
ConsistentParses(i) == ParsesFrom(InputPath, 0, PartsOf(i), <<>>, skip)

\* the storage root a rendered path starts with
RootOf(t) == IF t.cls = "TemplatePath" THEN t.prefix ELSE <<>>

Supplied == {n \in DOMAIN arg : arg[n] # None}

\* value_from_str(str_from_value(v)) == v for every supplied value
ValuesRoundTrip(keys) ==
    \A n \in DOMAIN keys :
        LET r == str_from_value(keys[n], arg[n]) IN
        r.ok /\ value_from_str(keys[n], r.str) = [ok |-> TRUE, value |-> arg[n]]

TokenSearch(i) == TokenLoop(tmpl.variations[i].static_tokens, Lower(InputPath), 0, <<>>)

HasKeys(i) == tmpl.variations[i].ordered_keys # <<>>

FirstConsistent(i) ==
    /\ ConsistentParses(i) # {}
    /\ \A j \in 1..(i - 1) : ConsistentParses(j) = {}

ParseOf(i) == ParsedPath(AdjustedPath(tmpl, arg), tmpl.variations[i], skip)

LongestFirst ==
    \A i, j \in 1..Len(tmpl.variations) :
        i < j => Len(tmpl.variations[i].name) > Len(tmpl.variations[j].name)

HasRepeatedKey(i) ==
    LET ks == tmpl.variations[i].ordered_keys IN
    \E a, b \in 1..Len(ks) : a < b /\ ks[a].name = ks[b].name /\ ks[a].name \notin skip

RequiredPresent(i) ==
    \A n \in DOMAIN tmpl.variations[i].keys :
        tmpl.variations[i].keys[n].default = None => FieldsGet(arg, n) # None

RECURSIVE Substituted(_, _, _)
\* the definition with each {name} replaced by the string of the field name
Substituted(definition, keys, fields) ==
    IF definition = <<>> THEN <<>>
    ELSE IF Head(definition) = "{"
         THEN LET close == FirstIndexOf(definition, "}", 0)
                  name == Slice(definition, 1, close)
              IN str_from_value(keys[name], FieldsGet(fields, name)).str
                 \o Substituted(Slice(definition, close + 1, Len(definition)), keys, fields)
         ELSE <<Head(definition)>> \o Substituted(Tail(definition), keys, fields)

\* the string apply_fields has to return for variation i
Rendering(i) ==
    LET body == Substituted(tmpl.variations[i].definition, tmpl.variations[i].keys, arg)
    IN IF tmpl.cls = "TemplatePath" THEN PathJoin(tmpl.prefix, body) ELSE body

C9_ApplyRendersFirstComplete ==
    IsApply =>
        /\ LongestFirst
        /\ res.kind = "string" => RequiredPresent(res.index)
        /\ \A i \in 1..Len(tmpl.variations) :
              (RequiredPresent(i) /\ \A j \in 1..(i - 1) : ~RequiredPresent(j))
              => /\ res.index = i
                 /\ res.kind = "string" => res.str = Rendering(i)

\* the shorter variation rendered because the longer one lacks a required
\* key, a field of the longer one alone being supplied
C9_Witness ==
    /\ IsApply
    /\ res.kind = "string"
    /\ Len(tmpl.variations) = 2
    /\ res.index = 2
    /\ ~RequiredPresent(1)
    /\ \E n \in DOMAIN arg : arg[n] # None /\ n \notin DOMAIN tmpl.variations[2].keys

(***************************************************************************)
(* C10: apply_fields fails with the missing-fields error exactly when      *)
(* missing_keys(fields, skip_defaults=True) is not empty, the error lists  *)
(* those names, and in every other case it returns a string or the error   *)
(* of a key's str_from_value that rejects its value.                       *)
(***************************************************************************)
MissingFieldsRaised == res.kind = "error" /\ res.error = "missing_fields"

ConversionRaised == res.kind = "error" /\ res.error = "conversion"

IsOptionalCall == op = "is_optional"

\* some variation of the template has no key of that name
SomeVariationLacks(key_name) ==
    \E i \in 1..Len(tmpl.variations) : key_name \notin DOMAIN tmpl.variations[i].keys

\* the keys of the variation that omits every optional section
ShortestKeys == tmpl.variations[Len(tmpl.variations)].keys

C11_OptionalIffAbsentSomewhere ==
    IsOptionalCall =>
        /\ res.value <=> SomeVariationLacks(arg)
        /\ res.value <=> arg \notin DOMAIN ShortestKeys

\* a key of an optional section reported optional, and a key outside reported
\* required, for a template with an optional section
C11_Witness ==
    /\ IsOptionalCall
    /\ Len(tmpl.variations) = 2
    /\ arg \in DOMAIN tmpl.variations[1].keys
    /\ res.value
    /\ ~IsOptional(tmpl, <<"x">>)

(***************************************************************************)
(* C12: missing_keys(fields, skip_defaults) returns exactly the key names  *)
(* of the shortest variation whose field is absent or None, without the    *)
(* keys that have a default when skip_defaults is true; no key that occurs *)
(* only in optional sections is returned.                                  *)
(***************************************************************************)
IsMissingKeysCall == op = "missing_keys"

C12_MissingKeysOfShortest ==
    IsMissingKeysCall =>
        /\ res.value = {n \in DOMAIN ShortestKeys :
                          /\ (n \notin DOMAIN arg \/ arg[n] = None)
                          /\ (res.skip_defaults => ShortestKeys[n].default = None)}
        /\ \A n \in res.value : \A i \in 1..Len(tmpl.variations) : n \in DOMAIN tmpl.variations[i].keys

\* a key with default left out under skip_defaults while its field is None,
\* and the same call without skip_defaults reporting it
C12_Witness ==
    /\ IsMissingKeysCall
    /\ res.skip_defaults
    /\ \E n \in DOMAIN ShortestKeys :
          /\ ShortestKeys[n].default # None
          /\ arg[n] = None
          /\ n \notin res.value
          /\ n \in MissingKeys(tmpl, arg, FALSE)
    /\ \E n \in DOMAIN ShortestKeys : n \in res.value

(***************************************************************************)
(* C13: validate is true exactly when get_fields succeeds on the input and *)
(* every name of the supplied fields that is not in skip_keys has the      *)
(* supplied value in the parsed fields; validate_and_get_fields returns    *)
(* the parsed fields in exactly those cases and None otherwise.            *)
(***************************************************************************)
IsValidateCall == op = "validate"

IsValidateAndGetFieldsCall == op = "validate_and_get_fields"

\* get_fields succeeds on the path of the call and agrees with its fields
ParsesAsRequired ==
    LET g == GetFields(tmpl, arg.path, skip) IN
    /\ g.kind = "fields"
    /\ \A n \in (DOMAIN arg.fields) \ skip :
          IF n \in DOMAIN g.fields THEN g.fields[n] = arg.fields[n]
          ELSE arg.fields[n] = None

IsConstruct == op = "construct"

RECURSIVE BracketsPaired(_, _)
\* every "[" and "]" of s is one of a pair that delimits a section, sections
\* not being nested; inside tells whether a section is open
BracketsPaired(s, inside) ==
    IF s = <<>> THEN ~inside
    ELSE IF Head(s) = "[" THEN ~inside /\ BracketsPaired(Tail(s), TRUE)
    ELSE IF Head(s) = "]" THEN inside /\ BracketsPaired(Tail(s), FALSE)
    ELSE BracketsPaired(Tail(s), inside)

RECURSIVE SectionsOf(_, _, _)
\* the sections of a definition with paired brackets, in source order, each
\* [optional, text]; cur is the text of the section being read
SectionsOf(s, cur, inside) ==
    IF s = <<>> THEN <<[optional |-> FALSE, text |-> cur]>>
    ELSE IF Head(s) = "[" THEN <<[optional |-> FALSE, text |-> cur]>> \o SectionsOf(Tail(s), <<>>, TRUE)
    ELSE IF Head(s) = "]" THEN <<[optional |-> TRUE, text |-> cur]>> \o SectionsOf(Tail(s), <<>>, FALSE)
    ELSE SectionsOf(Tail(s), Append(cur, Head(s)), inside)

\* the text holds a complete key reference {name}
HasKeyReference(text) ==
    \E i, j \in 1..Len(text) :
        /\ i + 1 < j
        /\ text[i] = "{"
        /\ text[j] = "}"
        /\ \A k \in (i + 1)..(j - 1) : text[k] \in NameChars

\* the optional sections of the definition of the call
OptionalSections == SelectSeq(SectionsOf(arg, <<>>, FALSE), LAMBDA sec : sec.optional)

\* the definition has paired brackets and a key reference in every section
WellFormed ==
    /\ BracketsPaired(arg, FALSE)
    /\ \A i \in 1..Len(OptionalSections) : HasKeyReference(OptionalSections[i].text)

RECURSIVE Pow2(_)
Pow2(n) == IF n = 0 THEN 1 ELSE 2 * Pow2(n - 1)

RECURSIVE ChoiceFrom(_, _, _)
\* the kept sections concatenated: the j-th optional section (from 0) is
\* kept when bit j of mask is set
ChoiceFrom(sections, mask, j) ==
    IF sections = <<>> THEN <<>>
    ELSE IF ~Head(sections).optional
         THEN Head(sections).text \o ChoiceFrom(Tail(sections), mask, j)
         ELSE (IF (mask \div Pow2(j)) % 2 = 1 THEN Head(sections).text ELSE <<>>)
              \o ChoiceFrom(Tail(sections), mask, j + 1)

Choice(mask) == ChoiceFrom(SectionsOf(arg, <<>>, FALSE), mask, 0)

Masks == 0..(Pow2(Len(OptionalSections)) - 1)

\* the first choice, in the order of enumeration, that gives the string
FirstMask(name) == CHOOSE m \in Masks : Choice(m) = name /\ \A n \in Masks : Choice(n) = name => m <= n

\* the definitions of the variations of the constructed template, in order
VariationNames == [i \in 1..Len(tmpl.variations) |-> tmpl.variations[i].name]

C15_SectionWithoutKeyRejected ==
    (/\ IsConstruct
     /\ BracketsPaired(arg, FALSE)
     /\ \E i \in 1..Len(OptionalSections) : ~HasKeyReference(OptionalSections[i].text))
    => res.kind = "error"

(***************************************************************************)
(* C16: constructing a template fails when a "[" or "]" of the definition  *)
(* is not one of a matched pair delimiting an optional section.            *)
(***************************************************************************)
C16_UnpairedBracketRejected ==
    (IsConstruct /\ ~BracketsPaired(arg, FALSE)) => res.kind = "error"

(***************************************************************************)
(* C17: apply_fields of a path template with a platform joins the rendered *)
(* body to the root registered for the platform, with backslashes for      *)
(* win32 and slashes for darwin and linux names, every separator of the    *)
(* body converted; it returns the root alone for an empty body and fails   *)
(* without per-platform roots, without a root for the platform, and for a  *)
(* platform that is neither.                                               *)
(***************************************************************************)
IsPlatformApply == op = "apply_fields_platform"

\* the separator of the paths of a platform, None for an unsupported one
SeparatorOf(platform) ==
    CASE platform = "win32" -> "\\"
      [] platform \in {"darwin", "linux2"} -> "/"
      [] OTHER -> "none"

\* the root registered for the platform of the call, None without one
RegisteredRoot ==
    IF tmpl.per_platform_roots = None THEN None
    ELSE IF arg.platform \in DOMAIN tmpl.per_platform_roots
         THEN tmpl.per_platform_roots[arg.platform] ELSE None

C17_PlatformJoin ==
    IsPlatformApply =>
        LET body == BaseApplyFields(tmpl, arg.fields)
            sep == SeparatorOf(arg.platform)
        IN IF body.kind # "string" THEN res.kind = "error"
           ELSE IF RegisteredRoot = None \/ sep = "none" THEN res.kind = "error"
           ELSE /\ res.kind = "string"
                /\ body.str = <<>> => res.str = RegisteredRoot
                /\ body.str # <<>> =>
                      /\ Len(res.str) = Len(RegisteredRoot) + 1 + Len(body.str)
                      /\ StartsWith(res.str, Append(RegisteredRoot, sep))
                      /\ \A i \in 1..Len(body.str) :
                            res.str[Len(RegisteredRoot) + 1 + i]
                                = IF body.str[i] = Sep THEN sep ELSE body.str[i]

\* a windows path rendered from a body that holds a separator
C17_Witness ==
    /\ IsPlatformApply
    /\ arg.platform = "win32"
    /\ res.kind = "string"
    /\ HasChar(BaseApplyFields(tmpl, arg.fields).str, Sep)
    /\ ~HasChar(res.str, Sep)

(***************************************************************************)
(* C18: a string template built with a validate_with template accepts, in  *)
(* get_fields, only a string that also parses against the referenced       *)
(* template.                                                               *)
(***************************************************************************)
\* the template of the call refers to a template to validate with (a string
\* template without one has NoTemplate in its place)
HasValidator == tmpl.cls = "TemplateString" /\ tmpl.validate_with # NoTemplate

MaxTemplates == 2

\* sys.platform of the model
SysPlatform == "linux2"

\* the template names of the data
TemplateNames == {<<"t", "1">>, <<"t", "2">>, <<"t", "3">>}

\* the definitions of the data; the last one has no "/"
ConfigDefinitions ==
    { <<"a", "/", "{", "x", "}">>, <<"{", "x", "}", "/", "a">>, <<"a", "{", "x", "}">> }

\* the values of root_name in the data: None stands for a missing entry
RootNames == {None, <<>>, <<"p">>, <<"s">>}

\* the data of one template: a bare definition string, a dictionary (None for
\* an entry it does not have) or a value that is neither
TemplateData ==
    [form : {"basestring"}, definition : ConfigDefinitions, root_name : {None}]
    \cup [form : {"dict"}, definition : ConfigDefinitions \cup {None}, root_name : RootNames]
    \cup [form : {"other"}, definition : {None}, root_name : {None}]

\* the data argument: a dictionary of at most MaxTemplates templates
TemplatesData ==
    UNION {[names -> TemplateData] :
             names \in {n \in SUBSET TemplateNames : Cardinality(n) <= MaxTemplates}}

\* all_per_platform_roots: the storage roots by name and platform, or none;
\* there is no storage s
AllPlatformRoots == { <<>>, [r \in {<<"p">>} |-> PlatformRoots] }

\* the orders a dictionary with these names can be iterated in
ItemOrders(names) ==
    {o \in [1..Cardinality(names) -> names] : \A i, j \in DOMAIN o : o[i] = o[j] => i = j}

RECURSIVE ConformAll(_, _)
\* the loop of _process_templates_data over the items with
\* _conform_template_data: the first TankError raised, "none" without one
ConformAll(data, order) ==
    IF order = <<>> THEN "none"
    ELSE LET template_data == data[Head(order)] IN
         IF template_data.form = "other" THEN "not_string_or_dict"
         ELSE IF template_data.definition = None THEN "missing_definition"
         ELSE ConformAll(data, Tail(order))

\* cur_key of _process_templates_data for a template of type path
CurKey(template_data) == <<template_data.root_name, template_data.definition>>

\* the names recorded under a key by _process_templates_data
NamesOfKey(data, key) == {n \in DOMAIN data : CurKey(data[n]) = key}

\* _process_templates_data(data, "path"): the TankError raised, "none" for
\* processed data
ProcessTemplatesData(data, order) ==
    LET error == ConformAll(data, order) IN
    IF error # "none" THEN error
    ELSE IF \E n \in DOMAIN data : Cardinality(NamesOfKey(data, CurKey(data[n]))) > 1
         THEN "duplicates"
         ELSE "none"

\* "not x" of python for a string or None
Falsy(x) == x = None \/ x = <<>>

\* all_per_platform_roots.get(root_name, {}).get(sys.platform)
RootPathOf(all_per_platform_roots, root_name) ==
    IF root_name \in DOMAIN all_per_platform_roots
    THEN PlatformRootOf(all_per_platform_roots[root_name], SysPlatform)
    ELSE None

\* the root name make_template_paths uses for a template, None without one
RootNameUsed(template_data, default_root) ==
    IF ~Falsy(template_data.root_name) THEN template_data.root_name
    ELSE IF ~Falsy(default_root) THEN default_root
    ELSE None

RECURSIVE MakeLoop(_, _, _, _)
\* the loop of make_template_paths over the processed data: the first
\* TankError raised, "none" without one
MakeLoop(data, order, all_per_platform_roots, default_root) ==
    IF order = <<>> THEN "none"
    ELSE LET template_data == data[Head(order)]
             root_name == RootNameUsed(template_data, default_root)
         IN IF root_name = None THEN "no_root_name"
            ELSE IF ~HasChar(template_data.definition, "/") THEN "not_a_path"
            ELSE IF RootPathOf(all_per_platform_roots, root_name) = None
                 THEN "undefined_storage"
            ELSE IF ConstructError(template_data.definition, KeyTable) # "none"
                 THEN ConstructError(template_data.definition, KeyTable)
            ELSE MakeLoop(data, Tail(order), all_per_platform_roots, default_root)

\* make_template_paths: the dictionary of path templates or the TankError;
\* order and order2 are the orders of iteration of data and of the processed
\* data
MakeTemplatePaths(data, all_per_platform_roots, default_root, order, order2) ==
    LET raised(error) == [kind |-> "error", error |-> error, templates |-> <<>>]
        processed == ProcessTemplatesData(data, order)
        made == MakeLoop(data, order2, all_per_platform_roots, default_root)
    IN IF DOMAIN data # {} /\ DOMAIN all_per_platform_roots = {} THEN raised("no_roots")
       ELSE IF processed # "none" THEN raised(processed)
       ELSE IF made # "none" THEN raised(made)
       ELSE [kind |-> "templates", error |-> "none",
             templates |->
                [n \in DOMAIN data |->
                    LET root_name == RootNameUsed(data[n], default_root) IN
                    ConstructPath(data[n].definition, KeyTable,
                                  RootPathOf(all_per_platform_roots, root_name),
                                  all_per_platform_roots[root_name])]]

\* before the call: no template, no call
ConfigInit ==
    /\ tmpl = NoTemplate
    /\ op = "none"
    /\ arg = <<>>
    /\ skip = {}
    /\ res = Idle
    /\ handlers = 0

\* a call of make_template_paths(data, keys, all_per_platform_roots,
\* default_root)
CallMakeTemplatePaths ==
    /\ op = "none"
    /\ \E data \in TemplatesData, roots \in AllPlatformRoots, default_root \in {None, <<"p">>} :
         \E order, order2 \in ItemOrders(DOMAIN data) :
            /\ op' = "make_template_paths"
            /\ arg' = [data |-> data, all_per_platform_roots |-> roots,
                       default_root |-> default_root]
            /\ res' = MakeTemplatePaths(data, roots, default_root, order, order2)
    /\ UNCHANGED <<tmpl, skip, handlers>>

ConfigNext == CallMakeTemplatePaths

ConfigSpec == ConfigInit /\ [][ConfigNext]_vars

(***************************************************************************)
(* C19: make_template_paths fails whenever two path templates have the     *)
(* same definition under the same storage root, the root of a template     *)
(* without a root_name of its own being the default root.                  *)
(***************************************************************************)
IsMakeTemplatePaths == op = "make_template_paths"

\* the storage root of a template of the data of the call
StorageRootOf(n) == RootNameUsed(arg.data[n], arg.default_root)

\* two templates of the data with one definition under one storage root
SameDefinitionSameRoot ==
    \E n, m \in DOMAIN arg.data :
        /\ n # m
        /\ arg.data[n].definition # None
        /\ arg.data[n].definition = arg.data[m].definition
        /\ StorageRootOf(n) = StorageRootOf(m)

C19_DuplicatesAreErrors ==
    (IsMakeTemplatePaths /\ SameDefinitionSameRoot) => res.kind = "error"

StaticTokensOf(i) ==
    [k \in 1..Len(tmpl.variations[i].static_tokens) |->
        Lower(tmpl.variations[i].static_tokens[k])]

\* the token positions the parser of variation i computes for the input
TokenPositionsOf(i) == GetTokenPositions(StaticTokensOf(i), Lower(InputPath)).positions

\* the parser of variation i gets as far as the search for key values
SearchesValues(i) ==
    /\ OrderedKeysOf(PartsOf(i)) # <<>>
    /\ ~TokensMissing(StaticTokensOf(i), TokenPositionsOf(i))

\* where the value of the first key starts: at 0, or after the first token
\* when the definition starts with it
FirstKeyPosition(i) == IF PartsOf(i)[1].isKey THEN 0 ELSE Len(StaticTokensOf(i)[1])

\* the candidate ends of the value of the first key
FirstKeyEnds(i) ==
    LET tp == TokenPositionsOf(i)
        ends == IF PartsOf(i)[1].isKey THEN tp[1]
                ELSE IF Len(tp) > 1 THEN tp[2] ELSE <<Len(InputPath)>>
    IN {ends[k] : k \in 1..Len(ends)}

IsLengthTemplate ==
    /\ Len(tmpl.variations) = 1
    /\ tmpl.variations[1].name = <<"{", "v", "}", "_", "{", "x", "}">>

TreeOf(i) ==
    PossibleValues(InputPath, PartsOf(i), StaticTokensOf(i), TokenPositionsOf(i), skip)

RECURSIVE ResolvedLeaves(_)
\* the number of fully resolved leaves under the nodes
ResolvedLeaves(nodes) ==
    IF nodes = <<>> THEN 0
    ELSE (IF Head(nodes).downstream_values = <<>>
          THEN (IF Head(nodes).fully_resolved THEN 1 ELSE 0)
          ELSE ResolvedLeaves(Head(nodes).downstream_values))
         + ResolvedLeaves(Tail(nodes))

RECURSIVE LeafMappings(_, _, _, _)
\* the field mappings, without the skipped keys, of the fully resolved leaves
\* under the nodes; keys are the keys from the nodes' level on and fields the
\* values bound above them
LeafMappings(nodes, keys, fields, skip_keys) ==
    UNION { LET node == nodes[k]
                bound == IF Head(keys).name \in skip_keys THEN fields
                         ELSE SetField(fields, Head(keys).name, node.value)
            IN IF node.downstream_values = <<>>
               THEN (IF node.fully_resolved THEN {bound} ELSE {})
               ELSE LeafMappings(node.downstream_values, Tail(keys), bound, skip_keys)
            : k \in 1..Len(nodes) }

\* the variation whose parser was constructed last by a failed call
LastTried == Len(tmpl.variations)

\* a candidate end for the first key of variation i that the key refuses:
\* long enough and free of separators, but value_from_str raises
RefusedByKey(i, pos) ==
    LET key == OrderedKeysOf(PartsOf(i))[1]
        possible_value_str == Slice(InputPath, FirstKeyPosition(i), pos)
    IN /\ pos - FirstKeyPosition(i) >= key.length
       /\ key.name \notin skip
       /\ ~HasChar(possible_value_str, Sep)
       /\ ~value_from_str(key, possible_value_str).ok

MappingsOf(i) == LeafMappings(TreeOf(i), OrderedKeysOf(PartsOf(i)), <<>>, skip)

OccurrencesFrom(token, path, bound) ==
    {pos \in 0..Len(path) : pos >= bound /\ StartsAt(path, token, pos)}

\* the least of a non-empty set of positions
LeastOf(positions) == CHOOSE m \in positions : \A q \in positions : m <= q

RECURSIVE OccurrencesOfAll(_, _, _)
\* the sets of occurrences of the tokens in turn, up to the first token
\* without one
OccurrencesOfAll(tokens, path, bound) ==
    IF tokens = <<>> THEN <<>>
    ELSE LET found == OccurrencesFrom(Head(tokens), path, bound) IN
         IF found = {} THEN <<>>
         ELSE <<found>> \o OccurrencesOfAll(Tail(tokens), path,
                                             LeastOf(found) + Len(Head(tokens)))

\* the positions the first loop of _get_token_positions collects for variation i
CollectedPositions(i) == TokenLoop(StaticTokensOf(i), Lower(InputPath), 0, <<>>)

MaxCaseValLen == 2

\* the key values of these inputs
CaseValues == Strings({"a", "A"}, 1, MaxCaseValLen)

\* str.upper on one character
UpperChar(c) == CASE c = "a" -> "A" [] c = "b" -> "B" [] OTHER -> c

\* the literals of a definition as it spells them, lowered or raised; the key
\* names of the model have no letter that changes
Cased(variant, definition) ==
    CASE variant = "lower" -> [k \in 1..Len(definition) |-> LowerChar(definition[k])]
      [] variant = "upper" -> [k \in 1..Len(definition) |-> UpperChar(definition[k])]
      [] OTHER -> definition

\* the input that fills variation i of the template with the values, its
\* literals (the root of a path template included) in the case of the variant
CasedInput(t, i, values, variant) ==
    LET body == Render(Cased(variant, t.variations[i].definition), values) IN
    IF t.cls = "TemplatePath" THEN PathJoin(Cased(variant, t.prefix), body) ELSE body

\* a call of get_fields(input_path) with such an input; asis is the input
\* with the literals as the definition spells them
CallGetFieldsCased ==
    /\ op = "none"
    /\ handlers < MaxHandlers
    /\ \E i \in 1..Len(tmpl.variations), variant \in {"asis", "lower", "upper"} :
          \E values \in [DOMAIN tmpl.variations[i].keys -> CaseValues] :
             /\ op' = "get_fields_cased"
             /\ arg' = [path |-> CasedInput(tmpl, i, values, variant),
                        asis |-> CasedInput(tmpl, i, values, "asis")]
             /\ skip' = {}
             /\ res' = GetFields(tmpl, CasedInput(tmpl, i, values, variant), {})
             /\ handlers' = handlers + ParsersBuilt(tmpl, res')
    /\ UNCHANGED tmpl

CaseNext == CallGetFieldsCased \/ Return

CaseSpec == Init /\ [][CaseNext]_vars

(***************************************************************************)
(* C27: literal tokens are matched whatever their case and key values keep *)
(* the case of the input: an input that differs from the definition only   *)
(* in the case of its literals parses to what the input with the           *)
(* definition's literals parses to, and every value is a slice of the      *)
(* normalised input in its own case.                                       *)
(***************************************************************************)
IsGetFieldsCased == op = "get_fields_cased"

\* value is path[a:b] for some a < b
IsSliceOf(value, path) ==
    \E a \in 0..Len(path), b \in 0..Len(path) : a < b /\ Slice(path, a, b) = value

VarKeyDicts ==
    { <<[alias |-> <<"x">>, key |-> KeyX], [alias |-> <<"y">>, key |-> KeyY]>>,
      <<[alias |-> <<"x">>, key |-> KeyY], [alias |-> <<"y">>, key |-> KeyZ]>>,
      <<[alias |-> <<"x">>, key |-> KeyY],
        [alias |-> <<"y">>, key |-> [KeyY EXCEPT !.kind = "alnum"]]>>,
      <<[alias |-> <<"x">>, key |-> KeyZ]>> }

\* the key tables: every dictionary in both iteration orders of its items
VarKeyTables ==
    VarKeyDicts \cup {[i \in 1..Len(keys) |-> keys[Len(keys) + 1 - i]] : keys \in VarKeyDicts}

\* the definitions handed to a Variation
VarDefinitions ==
    { <<>>,
      <<"a">>,
      <<"{", "x", "}">>,
      <<"{", "x", "}", "_", "{", "y", "}">>,
      <<"{", "y", "}", "A", "{", "x", "}">> }

\* the prefixes handed to a Variation
VarPrefixes == { <<>>, <<"p">> }

\* the definitions handed to the setter of fixed
VarFixedInputs == { <<>>, <<"{", "z", "}", "a">> }

RECURSIVE RepopulateLoop(_, _, _, _)
\* the loop of Variation._repopulate_keys over the names found in original:
\* [raised, named_keys, ordered_keys], with what has been stored when the
\* TankError is raised
RepopulateLoop(names, keys, named_keys, ordered_keys) ==
    IF names = <<>>
    THEN [raised |-> "none", named_keys |-> named_keys, ordered_keys |-> ordered_keys]
    ELSE IF Lookup(keys, Head(names)) = <<>>
    THEN [raised |-> "unknown_key", named_keys |-> named_keys,
          ordered_keys |-> ordered_keys]
    ELSE IF /\ Lookup(keys, Head(names))[1].key.name \in DOMAIN named_keys
            /\ named_keys[Lookup(keys, Head(names))[1].key.name]
                  # Lookup(keys, Head(names))[1].key
    THEN [raised |-> "two_keys_one_name", named_keys |-> named_keys,
          ordered_keys |-> ordered_keys]
    ELSE RepopulateLoop(Tail(names), keys,
                        [n \in DOMAIN named_keys \cup {Lookup(keys, Head(names))[1].key.name} |->
                            IF n = Lookup(keys, Head(names))[1].key.name
                            THEN Lookup(keys, Head(names))[1].key ELSE named_keys[n]],
                        Append(ordered_keys, Lookup(keys, Head(names))[1].key))

\* the outcome of the loop of _repopulate_keys for a definition and a table
RepopulatedKeys(original, keys) ==
    RepopulateLoop(KeyNamesOf(original), keys, <<>>, <<>>)

\* the TankError that _repopulate_keys raises, or "none"
RaisedBy(original, keys) == RepopulatedKeys(original, keys).raised

\* Variation._repopulate_parts
RepopulateParts(v) ==
    [v EXCEPT !.parts = CreateDefinitionParts(v.expanded, v.named_keys)]

\* Variation._repopulate_keys: the object when the method returns or raises;
\* the parts are repopulated when it does not raise and expanded is true
RepopulateKeys(v) ==
    IF RaisedBy(v.original, v.keys) = "none" /\ v.expanded # None /\ v.expanded # <<>>
    THEN RepopulateParts(
            [v EXCEPT !.named_keys = RepopulatedKeys(v.original, v.keys).named_keys,
                      !.ordered_keys = RepopulatedKeys(v.original, v.keys).ordered_keys])
    ELSE [v EXCEPT !.named_keys = RepopulatedKeys(v.original, v.keys).named_keys,
                   !.ordered_keys = RepopulatedKeys(v.original, v.keys).ordered_keys]

RECURSIVE LiteralSub(_, _, _, _)
\* re.sub(re.escape(old), new, s) from index i on
LiteralSub(s, old, new, i) ==
    IF i >= Len(s) THEN <<>>
    ELSE IF StartsAt(s, old, i)
         THEN new \o LiteralSub(s, old, new, i + Len(old))
         ELSE <<s[i + 1]>> \o LiteralSub(s, old, new, i + 1)

RECURSIVE FixedLoop(_, _)
\* the loop of Variation._update_fixed_definition over self.keys.items()
FixedLoop(fixed, keys) ==
    IF keys = <<>> THEN fixed
    ELSE IF Head(keys).alias # Head(keys).key.name
         THEN FixedLoop(LiteralSub(fixed, <<"{">> \o Head(keys).alias \o <<"}">>,
                                   <<"{">> \o Head(keys).key.name \o <<"}">>, 0),
                        Tail(keys))
         ELSE FixedLoop(fixed, Tail(keys))

RECURSIVE CleanedFrom(_, _, _)
\* re.sub("{(NAME)}", "%(\g<1>)s", s) from index from on, ms the matches left
CleanedFrom(s, ms, from) ==
    IF ms = <<>> THEN Slice(s, from, Len(s))
    ELSE Slice(s, from, Head(ms).start) \o <<"%", "(">> \o Head(ms).name \o <<")", "s">>
         \o CleanedFrom(s, Tail(ms), Head(ms).end)

\* the value Variation._update_cleaned_definition stores
CleanedOf(fixed) == CleanedFrom(fixed, KeyMatches(fixed), 0)

\* the value Variation._update_static_tokens stores
StaticTokensFrom(expanded) ==
    SelectSeq(SplitKeysFrom(Lower(expanded), KeyMatches(Lower(expanded)), 0), NonEmpty)

\* the value Variation._update_expanded_definition stores
ExpandedOf(prefix, fixed) ==
    IF fixed # None /\ fixed # <<>> THEN PathJoin(prefix, fixed) ELSE prefix

\* Variation._update_expanded_definition, with its downstream updates
\* _update_static_tokens and _repopulate_parts
UpdateExpandedDefinition(v) ==
    RepopulateParts([v EXCEPT !.expanded = ExpandedOf(v.prefix, v.fixed),
                              !.static_tokens =
                                  StaticTokensFrom(ExpandedOf(v.prefix, v.fixed))])

\* the setter of Variation.fixed, with its downstream updates
\* _update_expanded_definition and _update_cleaned_definition
SetFixed(v, fixed_definition) ==
    UpdateExpandedDefinition([v EXCEPT !.fixed = fixed_definition,
                                       !.cleaned = CleanedOf(fixed_definition)])

\* the downstream updates of the setters of original and of keys:
\* _repopulate_keys, then, unless that raised, _update_fixed_definition
UpdateFromKeys(v) ==
    IF RaisedBy(v.original, v.keys) = "none"
    THEN SetFixed(RepopulateKeys(v), FixedLoop(v.original, v.keys))
    ELSE RepopulateKeys(v)

\* the setter of Variation.original
SetOriginal(v, definition) == UpdateFromKeys([v EXCEPT !.original = definition])

\* the setter of Variation.keys
SetKeys(v, input_keys) == UpdateFromKeys([v EXCEPT !.keys = input_keys])

\* the setter of Variation.prefix
SetPrefix(v, prefix) == UpdateExpandedDefinition([v EXCEPT !.prefix = prefix])

\* Variation.__init__: the attributes before the downstream updates, then the
\* setter of original
NewVariation(definition, keys, prefix) ==
    SetOriginal([cls |-> "Variation", original |-> definition, keys |-> keys,
                 prefix |-> prefix, fixed |-> None, expanded |-> None,
                 cleaned |-> None, static_tokens |-> None, named_keys |-> None,
                 ordered_keys |-> None, parts |-> <<>>], definition)

\* Variation(definition, keys, prefix=prefix): the name is bound to the object
\* only when the constructor returns
CallNewVariation ==
    /\ op = "none"
    /\ tmpl = NoTemplate
    /\ \E definition \in VarDefinitions, keys \in VarKeyTables, prefix \in VarPrefixes :
          /\ op' = "new_variation"
          /\ arg' = definition
          /\ res' = [kind |-> "call", raised |-> RaisedBy(definition, keys)]
          /\ tmpl' = IF RaisedBy(definition, keys) = "none"
                     THEN NewVariation(definition, keys, prefix) ELSE NoTemplate
    /\ UNCHANGED <<skip, handlers>>

\* variation.original = definition
CallSetOriginal ==
    /\ op = "none"
    /\ tmpl # NoTemplate
    /\ \E definition \in VarDefinitions :
          /\ op' = "set_original"
          /\ arg' = definition
          /\ res' = [kind |-> "call", raised |-> RaisedBy(definition, tmpl.keys)]
          /\ tmpl' = SetOriginal(tmpl, definition)
    /\ UNCHANGED <<skip, handlers>>

\* variation.keys = input_keys
CallSetKeys ==
    /\ op = "none"
    /\ tmpl # NoTemplate
    /\ \E input_keys \in VarKeyTables :
          /\ op' = "set_keys"
          /\ arg' = input_keys
          /\ res' = [kind |-> "call", raised |-> RaisedBy(tmpl.original, input_keys)]
          /\ tmpl' = SetKeys(tmpl, input_keys)
    /\ UNCHANGED <<skip, handlers>>

\* variation.prefix = prefix
CallSetPrefix ==
    /\ op = "none"
    /\ tmpl # NoTemplate
    /\ \E prefix \in VarPrefixes :
          /\ op' = "set_prefix"
          /\ arg' = prefix
          /\ res' = [kind |-> "call", raised |-> "none"]
          /\ tmpl' = SetPrefix(tmpl, prefix)
    /\ UNCHANGED <<skip, handlers>>

\* variation.fixed = fixed_definition
CallSetFixed ==
    /\ op = "none"
    /\ tmpl # NoTemplate
    /\ \E fixed_definition \in VarFixedInputs :
          /\ op' = "set_fixed"
          /\ arg' = fixed_definition
          /\ res' = [kind |-> "call", raised |-> "none"]
          /\ tmpl' = SetFixed(tmpl, fixed_definition)
    /\ UNCHANGED <<skip, handlers>>

VarNext ==
    \/ CallNewVariation
    \/ CallSetOriginal
    \/ CallSetKeys
    \/ CallSetPrefix
    \/ CallSetFixed
    \/ Return

VarSpec == DefInit /\ [][VarNext]_vars

RECURSIVE NormalisedFrom(_, _, _, _)
\* the definition s from index from on with every reference {alias} replaced
\* by {n}, n the name of the key the table has under alias; ms the references
\* left
NormalisedFrom(s, ms, keys, from) ==
    IF ms = <<>> THEN Slice(s, from, Len(s))
    ELSE Slice(s, from, Head(ms).start)
         \o <<"{">>
         \o (IF Lookup(keys, Head(ms).name) = <<>> THEN Head(ms).name
             ELSE Lookup(keys, Head(ms).name)[1].key.name)
         \o <<"}">>
         \o NormalisedFrom(s, Tail(ms), keys, Head(ms).end)

\* the alias-normalised definition
NormalisedOf(original, keys) == NormalisedFrom(original, KeyMatches(original), keys, 0)

\* the keys that a sequence of references stands for
ReferencedKeys(names, keys) ==
    [i \in 1..Len(names) |-> Lookup(keys, names[i])[1].key]

\* a constructor or a setter of original or keys has returned normally
IsKeysUpdate ==
    /\ tmpl # NoTemplate
    /\ op \in {"new_variation", "set_original", "set_keys"}
    /\ res.raised = "none"

\* C28: when the fixed definition has been recalculated from original and the
\* key table, every reference {alias} of original is {n} in fixed, n the name
\* of the key the table has under alias, whatever the order of the table, and
\* the reference resolves to that key in named_keys and in parts
C28_AliasNormalisedOnce ==
    IsKeysUpdate =>
        /\ tmpl.fixed = NormalisedOf(tmpl.original, tmpl.keys)
        /\ \A i \in 1..Len(KeyNamesOf(tmpl.fixed)) :
              /\ KeyNamesOf(tmpl.fixed)[i] \in DOMAIN tmpl.named_keys
              /\ tmpl.named_keys[KeyNamesOf(tmpl.fixed)[i]]
                    = ReferencedKeys(KeyNamesOf(tmpl.original), tmpl.keys)[i]
        /\ OrderedKeysOf(tmpl.parts) = ReferencedKeys(KeyNamesOf(tmpl.original), tmpl.keys)


\* the keys that the references of a definition stand for, in order, leaving
\* out the references the table has no key for
KnownReferencedKeys(original, keys) ==
    ReferencedKeys(SelectSeq(KeyNamesOf(original), LAMBDA n : Lookup(keys, n) # <<>>), keys)

\* C29: whatever setters have been called on a Variation, and whether they
\* returned or raised, fixed is original with the aliases rewritten, expanded
\* is the prefix joined with fixed, cleaned and static_tokens derive from
\* fixed and expanded, named_keys and ordered_keys are the keys original
\* refers to, and the keys in parts are ordered_keys
C29_DerivedAgreeWithSources ==
    tmpl # NoTemplate =>
        /\ tmpl.fixed = FixedLoop(tmpl.original, tmpl.keys)
        /\ tmpl.expanded = ExpandedOf(tmpl.prefix, tmpl.fixed)
        /\ tmpl.cleaned = CleanedOf(tmpl.fixed)
        /\ tmpl.static_tokens = StaticTokensFrom(tmpl.expanded)
        /\ tmpl.ordered_keys = KnownReferencedKeys(tmpl.original, tmpl.keys)
        /\ tmpl.named_keys = NamedKeys(tmpl.ordered_keys)
        /\ OrderedKeysOf(tmpl.parts) = tmpl.ordered_keys


(***************************************************************************)
(* The attributes of the record of a variation.  The operator ParsedPath   *)
(* above reads the named keys and the expanded definition from the record  *)
(* as if they were stored under the names the parser asks for; here the    *)
(* record is the dictionary Template.__init__ builds and the parser looks  *)
(* its attributes up by name.                                              *)
(***************************************************************************)
\* the attributes of a record of self._variations
VarInfoAttributes ==
    {"keys", "ordered_keys", "definition", "cleaned_definition", "static_tokens"}

\* the attributes ParsedPath.__init__ looks up in var_info, in order
ParserReads == <<"named_keys", "expanded", "static_tokens">>

\* the first statements of ParsedPath.__init__ on a record with these
\* attributes: the parser goes on, or a lookup raises KeyError
ParsedPathInit(attributes) ==
    IF \A i \in 1..Len(ParserReads) : ParserReads[i] \in attributes
    THEN [kind |-> "parser", attribute |-> "none"]
    ELSE [kind |-> "KeyError",
          attribute |-> ParserReads[CHOOSE i \in 1..Len(ParserReads) :
                                       /\ ParserReads[i] \notin attributes
                                       /\ \A j \in 1..(i - 1) : ParserReads[j] \in attributes]]

\* ParsedPath(input_path, var_info, skip_keys=skip_keys) in Template.get_fields,
\* for the record of one variation, up to the lookups of the attributes
CallParsedPathInit ==
    /\ op = "none"
    /\ \E i \in 1..Len(tmpl.variations), input_path \in Strings(InputChars, 0, MaxValidateLen),
          skip_keys \in SkipSetsOf(tmpl) :
          /\ op' = "parsed_path_init"
          /\ arg' = [path |-> input_path, variation |-> i]
          /\ skip' = skip_keys
          /\ res' = ParsedPathInit(VarInfoAttributes)
    /\ UNCHANGED <<tmpl, handlers>>

AttrNext == CallParsedPathInit \/ Return

AttrSpec == Init /\ [][AttrNext]_vars

\* C30: the record get_fields hands to the parser has every attribute the
\* parser looks up when it is constructed, so no lookup fails before the
\* matching starts
C30_RecordSuppliesAttributes ==
    op = "parsed_path_init" => res.kind = "parser"

====
